---- MODULE Spec2Model ----
(***************************************************************************)
(* A model of tuikit's canvas.rs: the Canvas trait with its default text   *)
(* operations and the BoundedCanvas adapter.                               *)
(*                                                                         *)
(* A chain of nested BoundedCanvas values is the sequence `wins`:          *)
(* wins[1] wraps the backend canvas, wins[k+1] wraps wins[k], and the      *)
(* caller draws on wins[Len(wins)].  The backend (a concrete Canvas, which *)
(* canvas.rs only declares) is the record `canvas`.                        *)
(***************************************************************************)
EXTENDS Integers, Sequences, FiniteSets

VARIABLES wins, canvas, pre, call, res, tr, nOps

vars == <<wins, canvas, pre, call, res, tr, nOps>>

(* ---------------------------- bounds ----------------------------------- *)
MaxTop == 1
MaxLeft == 1
MaxW == 3
MaxH == 2
PW == 3
PH == 2
MaxLen == 2
MaxOps == 2

(* ------------------------- data: Cell, Attr ---------------------------- *)
Attrs == {"default", "bold"}
\* a narrow, a wide and a control character
Chars == {"a", "W", "c"}

AttrDefault == "default"

CellDefault == [ch |-> " ", attr |-> AttrDefault]

CellEmpty == [ch |-> " ", attr |-> AttrDefault]

\* what the backend shows before anything is drawn
CellOrig == [ch |-> "x", attr |-> "bold"]

\* Option<usize>: None is << >>, Some(n) is <<n>>
None == << >>

Some(n) == <<n>>

\* UnicodeWidthChar::width: None for control characters
UnicodeWidth(ch) ==
    CASE ch = "W" -> Some(2)
      [] ch = "c" -> None
      [] OTHER -> Some(1)

UnwrapOr(v, d) == IF v = None THEN d ELSE v[1]

\* Result<T>: val is the success value as a tuple, err the error
Ok(v) == [ok |-> TRUE, val |-> v, err |-> << >>]

Err(e) == [ok |-> FALSE, val |-> << >>, err |-> e]

Outcome(r, st, t) == [res |-> r, st |-> st, tr |-> t]

\* format!("({}, {}) out of box", row, col)
OutOfBox(row, col) == <<"out of box", row, col>>

\* one call of a Canvas method on the canvas `lvl` levels above the backend
Rec(lvl, op, row, col, cell, show) ==
    [row |-> row, col |-> col, lvl |-> lvl, op |-> op, cell |-> cell,
     show |-> show]

(* ----------------- the backend canvas (a concrete Canvas) -------------- *)
Pos == (0 .. PH - 1) \X (0 .. PW - 1)

BackendSize(st) ==
    IF st.broken THEN Outcome(Err(<<"backend", 0, 0>>), st,
                              <<Rec(0, "size", 0, 0, CellDefault, FALSE)>>)
    ELSE Outcome(Ok(<<PW, PH>>), st,
                 <<Rec(0, "size", 0, 0, CellDefault, FALSE)>>)

BackendPutCell(st, row, col, cell) ==
    LET t == <<Rec(0, "put_cell", row, col, cell, FALSE)>> IN
    IF st.broken THEN Outcome(Err(<<"backend", row, col>>), st, t)
    ELSE IF row >= PH \/ col >= PW
    THEN Outcome(Err(<<"out of screen", row, col>>), st, t)
    ELSE Outcome(Ok(<<UnwrapOr(UnicodeWidth(cell.ch), 2)>>),
                 [st EXCEPT !.cells[<<row, col>>] = cell], t)

BackendSetCursor(st, row, col) ==
    LET t == <<Rec(0, "set_cursor", row, col, CellDefault, FALSE)>> IN
    IF st.broken THEN Outcome(Err(<<"backend", row, col>>), st, t)
    ELSE IF row >= PH \/ col >= PW
    THEN Outcome(Err(<<"out of screen", row, col>>), st, t)
    ELSE Outcome(Ok(<< >>),
                 [st EXCEPT !.cursor = <<row, col>>, !.visible = TRUE], t)

BackendShowCursor(st, show) ==
    LET t == <<Rec(0, "show_cursor", 0, 0, CellDefault, show)>> IN
    IF st.broken THEN Outcome(Err(<<"backend", 0, 0>>), st, t)
    ELSE Outcome(Ok(<< >>), [st EXCEPT !.visible = show], t)

(* ------------------------- BoundedCanvas ------------------------------- *)
\* BoundedCanvas::new: the window; its `canvas` field is the rest of the chain
New(top, left, width, height) ==
    [top |-> top, left |-> left, width |-> width, height |-> height]

Windows ==
    {New(t, l, w, h) : t \in 0 .. MaxTop, l \in 0 .. MaxLeft,
                       w \in 1 .. MaxW, h \in 1 .. MaxH}

\* the canvas a BoundedCanvas holds in its `canvas` field
Inner(ws) == SubSeq(ws, 1, Len(ws) - 1)

\* variant: `>` for `>=` in the bounds check
InBoxOffByOne(w, row, col) == ~(row > w.height \/ col > w.width)

\* variant: `&&` for `||` in the bounds check
InBoxBothOut(w, row, col) == ~(row >= w.height /\ col >= w.width)

\* the negation of `row >= self.height || col >= self.width`
InBox(w, row, col) == ~(row >= w.height \/ col >= w.width)

\* variant: self.top added to the column
TranslateTopTwice(w, row, col) == <<row + w.top, col + w.top>>

\* (row + self.top, col + self.left)
Translate(w, row, col) == <<row + w.top, col + w.left>>

RECURSIVE put_cell(_, _, _, _, _)
put_cell(ws, st, row, col, cell) ==
    IF ws = << >> THEN BackendPutCell(st, row, col, cell)
    ELSE LET w == ws[Len(ws)]
             me == <<Rec(Len(ws), "put_cell", row, col, cell, FALSE)>>
         IN IF ~InBox(w, row, col)
            THEN Outcome(Err(OutOfBox(row, col)), st, me)
            ELSE LET p == Translate(w, row, col)
                     o == put_cell(Inner(ws), st, p[1], p[2], cell)
                 IN Outcome(o.res, o.st, me \o o.tr)

RECURSIVE set_cursor(_, _, _, _)
set_cursor(ws, st, row, col) ==
    IF ws = << >> THEN BackendSetCursor(st, row, col)
    ELSE LET w == ws[Len(ws)]
             me == <<Rec(Len(ws), "set_cursor", row, col, CellDefault, FALSE)>>
         IN IF ~InBox(w, row, col)
            THEN Outcome(Err(OutOfBox(row, col)), st, me)
            ELSE LET p == Translate(w, row, col)
                     o == set_cursor(Inner(ws), st, p[1], p[2])
                 IN Outcome(o.res, o.st, me \o o.tr)

\* variant: the flag is not forwarded, the cursor is always shown
RECURSIVE ShowCursorAlways(_, _, _)
ShowCursorAlways(ws, st, show) ==
    IF ws = << >> THEN BackendShowCursor(st, show)
    ELSE LET me == <<Rec(Len(ws), "show_cursor", 0, 0, CellDefault, show)>>
             o == ShowCursorAlways(Inner(ws), st, TRUE)
         IN Outcome(o.res, o.st, me \o o.tr)

RECURSIVE show_cursor(_, _, _)
show_cursor(ws, st, show) ==
    IF ws = << >> THEN BackendShowCursor(st, show)
    ELSE LET me == <<Rec(Len(ws), "show_cursor", 0, 0, CellDefault, show)>>
             o == show_cursor(Inner(ws), st, show)
         IN Outcome(o.res, o.st, me \o o.tr)

\* variant: size forwarded to the wrapped canvas
SizeOfParent(ws, st) ==
    LET o == BackendSize(st) IN
    Outcome(o.res, o.st,
            <<Rec(Len(ws), "size", 0, 0, CellDefault, FALSE)>> \o o.tr)

\* BoundedCanvas::size: Ok((self.width, self.height))
size(ws, st) ==
    IF ws = << >> THEN BackendSize(st)
    ELSE LET w == ws[Len(ws)] IN
         Outcome(Ok(<<w.width, w.height>>), st,
                 <<Rec(Len(ws), "size", 0, 0, CellDefault, FALSE)>>)

\* Rust's half-open range a..b as the sequence of its values
Range(a, b) == [i \in 1 .. (IF b > a THEN b - a ELSE 0) |-> a + i - 1]

\* `for row in self.top..(self.top + self.height)`
ClearRows(w) == Range(w.top, w.top + w.height)

\* `for col in self.left..(self.left + self.width)`
ClearCols(w) == Range(w.left, w.left + w.width)

\* the (row, col) pairs of the two nested loops, in iteration order
ClearOrder(w) ==
    LET rows == ClearRows(w)
        cols == ClearCols(w)
    IN [i \in 1 .. (Len(rows) * Len(cols)) |->
           <<rows[((i - 1) \div Len(cols)) + 1],
             cols[((i - 1) % Len(cols)) + 1]>>]

\* variant: `?` for `let _ =`
DiscardPropagates(r) == r

\* `let _ = r`: the result is dropped, nothing is propagated
Discard(r) == Ok(<< >>)

\* the loop body of clear for the pairs of todo, then Ok(())
RECURSIVE ClearFrom(_, _, _, _)
ClearFrom(ws, st, todo, t) ==
    IF todo = << >> THEN Outcome(Ok(<< >>), st, t)
    ELSE LET o == put_cell(ws, st, todo[1][1], todo[1][2], CellEmpty)
             r == Discard(o.res)
         IN IF ~r.ok THEN Outcome(r, o.st, t \o o.tr)
            ELSE ClearFrom(ws, o.st, Tail(todo), t \o o.tr)

clear(ws, st) ==
    ClearFrom(ws, st, ClearOrder(ws[Len(ws)]),
              <<Rec(Len(ws), "clear", 0, 0, CellDefault, FALSE)>>)

(* --------------------- Canvas: default methods ------------------------- *)
put_ch_with_attr(ws, st, row, col, ch, attr) ==
    put_cell(ws, st, row, col, [ch |-> ch, attr |-> attr])

\* variant: unwrap_or(1)
AdvanceFallbackOne(ch) == UnwrapOr(UnicodeWidth(ch), 1)

\* width += ch.width().unwrap_or(2)
Advance(ch) == UnwrapOr(UnicodeWidth(ch), 2)

\* variant: the error of put_cell is ignored
TryIgnores(r) == Ok(<< >>)

\* `r?`: an error returns from the function at once
Try(r) == r

\* the loop of print_with_attr from the character content[1] on, with the
\* running `width`; `?` returns the first error
RECURSIVE PrintLoop(_, _, _, _, _, _, _, _)
PrintLoop(ws, st, row, col, content, attr, width, t) ==
    IF content = << >> THEN Outcome(Ok(<<width>>), st, t)
    ELSE LET cell == [CellDefault EXCEPT !.attr = attr, !.ch = content[1]]
             o == put_cell(ws, st, row, col + width, cell)
             r == Try(o.res)
         IN IF ~r.ok THEN Outcome(r, o.st, t \o o.tr)
            ELSE PrintLoop(ws, o.st, row, col, Tail(content), attr,
                           width + Advance(content[1]), t \o o.tr)

print_with_attr(ws, st, row, col, content, attr) ==
    PrintLoop(ws, st, row, col, content, attr, 0, << >>)

print(ws, st, row, col, content) ==
    print_with_attr(ws, st, row, col, content, AttrDefault)

(* ------------------------------ calls ---------------------------------- *)
Call(op, row, col, cell, content, show) ==
    [row |-> row, col |-> col, op |-> op, cell |-> cell, show |-> show,
     content |-> content]

NoCall == Call("new", 0, 0, CellDefault, << >>, FALSE)

\* the method a call names, on the chain ws over the backend state st
Apply(ws, st, c) ==
    CASE c.op = "put_cell" -> put_cell(ws, st, c.row, c.col, c.cell)
      [] c.op = "put_ch_with_attr" ->
            put_ch_with_attr(ws, st, c.row, c.col, c.cell.ch, c.cell.attr)
      [] c.op = "set_cursor" -> set_cursor(ws, st, c.row, c.col)
      [] c.op = "show_cursor" -> show_cursor(ws, st, c.show)
      [] c.op = "size" -> size(ws, st)
      [] c.op = "clear" -> clear(ws, st)
      [] c.op = "print_with_attr" ->
            print_with_attr(ws, st, c.row, c.col, c.content, c.cell.attr)
      [] c.op = "print" -> print(ws, st, c.row, c.col, c.content)
      [] OTHER -> Outcome(Ok(<< >>), st, << >>)

(* --------------------------- inputs ------------------------------------ *)
Rows == 0 .. MaxH

Cols == 0 .. MaxW

Cells == {[ch |-> ch, attr |-> a] : ch \in Chars, a \in Attrs}

Contents == UNION {[1 .. n -> Chars] : n \in 0 .. MaxLen}

(* --------------------------- the machine ------------------------------- *)
Screen(broken) ==
    [cells |-> [p \in Pos |-> CellOrig], cursor |-> <<0, 0>>,
     visible |-> TRUE, broken |-> broken]

InitWith(chains) ==
    /\ wins \in chains
    /\ \E b \in BOOLEAN : canvas = Screen(b)
    /\ pre = canvas
    /\ call = NoCall
    /\ res = Ok(<< >>)
    /\ tr = << >>
    /\ nOps = 0

Init == InitWith({<<w>> : w \in Windows})

\* the caller calls one method of the innermost canvas; the whole call runs
Do(c) ==
    /\ call = NoCall
    /\ nOps < MaxOps
    /\ LET o == Apply(wins, canvas, c) IN
         /\ canvas' = o.st
         /\ res' = o.res
         /\ tr' = o.tr
    /\ pre' = canvas
    /\ call' = c
    /\ nOps' = nOps + 1
    /\ UNCHANGED wins

PutCell ==
    \E row \in Rows, col \in Cols, cell \in Cells :
        Do(Call("put_cell", row, col, cell, << >>, FALSE))

PutChWithAttr ==
    \E row \in Rows, col \in Cols, cell \in Cells :
        Do(Call("put_ch_with_attr", row, col, cell, << >>, FALSE))

SetCursor ==
    \E row \in Rows, col \in Cols :
        Do(Call("set_cursor", row, col, CellDefault, << >>, FALSE))

ShowCursor ==
    \E show \in BOOLEAN :
        Do(Call("show_cursor", 0, 0, CellDefault, << >>, show))

Size == Do(Call("size", 0, 0, CellDefault, << >>, FALSE))

Clear == Do(Call("clear", 0, 0, CellDefault, << >>, FALSE))

PrintWithAttr ==
    \E row \in Rows, col \in Cols, content \in Contents, attr \in Attrs :
        Do(Call("print_with_attr", row, col,
                [CellDefault EXCEPT !.attr = attr], content, FALSE))

PrintDefaultAttr ==
    \E row \in Rows, col \in Cols, content \in Contents :
        Do(Call("print", row, col, CellDefault, content, FALSE))

\* the caller takes the result; the canvas is idle until the next call
Return ==
    /\ call # NoCall
    /\ call' = NoCall
    /\ res' = Ok(<< >>)
    /\ tr' = << >>
    /\ pre' = canvas
    /\ UNCHANGED <<wins, canvas, nOps>>

Next ==
    \/ Return
    \/ PutCell
    \/ PutChWithAttr
    \/ SetCursor
    \/ ShowCursor
    \/ Size
    \/ Clear
    \/ PrintWithAttr
    \/ PrintDefaultAttr

Spec == Init /\ [][Next]_vars

\* a BoundedCanvas constructed from another BoundedCanvas, used for one call
InitNest == InitWith({<<outer, inner>> : outer \in Windows, inner \in Windows})

NextNest ==
    \/ PutCell
    \/ PutChWithAttr
    \/ SetCursor
    \/ ShowCursor
    \/ Size
    \/ Clear
    \/ PrintWithAttr
    \/ PrintDefaultAttr

SpecNest == InitNest /\ [][NextNest]_vars

(* ======================== properties =================================== *)
\* the canvas the caller draws on, its depth, and the calls it made
Win == wins[Len(wins)]

Lvl == Len(wins)

CallsAtLvl(k) == SelectSeq(tr, LAMBDA r : r.lvl = k)

CallsAt(k, op) == SelectSeq(tr, LAMBDA r : r.lvl = k /\ r.op = op)

Inside(row, col) == row < Win.height /\ col < Win.width

InWindow(p) ==
    /\ Win.top <= p[1] /\ p[1] < Win.top + Win.height
    /\ Win.left <= p[2] /\ p[2] < Win.left + Win.width

\* the window lies on the backend's grid
Fits == Win.top + Win.height <= PH /\ Win.left + Win.width <= PW

IsPrint == call.op \in {"print_with_attr", "print"}

TakesCoord ==
    call.op \in {"put_cell", "put_ch_with_attr", "set_cursor",
                 "print_with_attr", "print"}

\* display width as the claims state it: 1 narrow, 2 wide, 2 undetermined
DisplayWidth(ch) == CASE ch = "a" -> 1 [] ch = "W" -> 2 [] ch = "c" -> 2

RECURSIVE SumW(_)
SumW(content) ==
    IF content = << >> THEN 0
    ELSE DisplayWidth(content[1]) + SumW(Tail(content))

\* column offset of the k-th character of the printed content
Off(k) == SumW(SubSeq(call.content, 1, k - 1))

PrintAttr == IF call.op = "print" THEN AttrDefault ELSE call.cell.attr

PrintCell(k) == [ch |-> call.content[k], attr |-> PrintAttr]

\* C1: an in-window put_cell / set_cursor makes exactly one call of the same
\* operation on the parent at (row+top, col+left) with the same cell, returns
\* the parent's result, and leaves the parent as a direct write would.
C1_Delegates ==
    (call.op \in {"put_cell", "set_cursor"} /\ Inside(call.row, call.col)) =>
        LET r == call.row + Win.top
            c == call.col + Win.left
            direct == IF call.op = "put_cell"
                      THEN put_cell(Inner(wins), pre, r, c, call.cell)
                      ELSE set_cursor(Inner(wins), pre, r, c)
        IN /\ CallsAtLvl(Lvl - 1) = <<Rec(Lvl - 1, call.op, r, c, call.cell, FALSE)>>
           /\ res = direct.res
           /\ canvas = direct.st

C1_Witness ==
    /\ call.op = "put_cell" /\ Inside(call.row, call.col)
    /\ Win.top > 0 /\ Win.left > 0 /\ res.ok
    /\ canvas.cells[<<call.row + Win.top, call.col + Win.left>>] = call.cell
    /\ canvas # pre

\* C2 as stated: every operation given a coordinate outside the window, for
\* any content, fails with the out-of-bounds error and leaves the parent as
\* it was.
C2_OutsideFails ==
    (TakesCoord /\ ~Inside(call.row, call.col)) =>
        /\ ~res.ok
        /\ res.err = OutOfBox(call.row, call.col)
        /\ canvas = pre
        /\ CallsAtLvl(Lvl - 1) = << >>

\* C2 amended: the same for put_cell, put_ch_with_attr, set_cursor and for
\* print_with_attr / print of non-empty content; with empty content the print
\* operations call nothing, return Ok(0) and leave the parent as it was.
C2_OutsideFailsNonEmpty ==
    (TakesCoord /\ ~Inside(call.row, call.col)) =>
        /\ canvas = pre
        /\ CallsAtLvl(Lvl - 1) = << >>
        /\ IF IsPrint /\ call.content = << >>
           THEN res = Ok(<<0>>) /\ tr = << >>
           ELSE ~res.ok /\ res.err = OutOfBox(call.row, call.col)

C2_Witness ==
    /\ call.op = "print_with_attr" /\ call.content # << >>
    /\ call.row < Win.height /\ call.col >= Win.width
    /\ call.row + Win.top < PH /\ call.col + Win.left < PW
    /\ ~pre.broken /\ ~res.ok /\ nOps >= 2

\* C3: after clear() every parent cell (r+top, c+left), r < h, c < w, holds
\* the empty cell, when the parent accepts put_cell on those positions.
C3_ClearCoversWindow ==
    (call.op = "clear" /\ Fits /\ ~pre.broken) =>
        \A r \in 0 .. Win.height - 1, c \in 0 .. Win.width - 1 :
            canvas.cells[<<r + Win.top, c + Win.left>>] = CellEmpty

\* C4: no parent cell outside the window ever changes, and no call on the
\* parent addresses a position outside the window.
C4_Frame ==
    /\ \A p \in Pos : ~InWindow(p) => canvas.cells[p] = CellOrig
    /\ canvas.cursor # <<0, 0>> => InWindow(canvas.cursor)
    /\ \A i \in 1 .. Len(tr) :
          (tr[i].lvl = 0 /\ tr[i].op \in {"put_cell", "set_cursor"}) =>
              InWindow(<<tr[i].row, tr[i].col>>)

C4_Witness ==
    /\ nOps >= 2 /\ IsPrint /\ ~res.ok /\ canvas.cells # pre.cells
    /\ pre.cells # [p \in Pos |-> CellOrig]
    /\ \E p \in Pos : ~InWindow(p)

\* C5: a print whose put_cell calls all succeed makes one put_cell per
\* character, in order, on the given row with the shared attr, the k-th at
\* column col + (sum of the widths before it), and returns the sum of widths.
C5_PrintLayout ==
    (IsPrint /\ res.ok) =>
        LET puts == CallsAt(Lvl, "put_cell")
            n == Len(call.content)
        IN /\ Len(puts) = n
           /\ \A k \in 1 .. n :
                 /\ puts[k].row = call.row
                 /\ puts[k].col = call.col + Off(k)
                 /\ puts[k].cell = PrintCell(k)
           /\ res.val = <<SumW(call.content)>>

C5_Witness ==
    /\ call.op = "print_with_attr" /\ call.content = <<"W", "a">>
    /\ call.cell.attr = "bold" /\ res = Ok(<<3>>)
    /\ canvas.cells[<<call.row + Win.top, call.col + Win.left + 2>>]
          = [ch |-> "a", attr |-> "bold"]

\* the k-th character of the print cannot be written: outside the window, or
\* refused by the backend
FailsAt(k) ==
    \/ ~Inside(call.row, call.col + Off(k))
    \/ pre.broken
    \/ call.row + Win.top >= PH
    \/ call.col + Off(k) + Win.left >= PW

\* the backend after the first j characters of the print were written
Written(j) ==
    [pre EXCEPT !.cells =
        [p \in Pos |->
            IF \E k \in 1 .. j :
                  p = <<call.row + Win.top, call.col + Off(k) + Win.left>>
            THEN PrintCell(CHOOSE k \in 1 .. j :
                  p = <<call.row + Win.top, call.col + Off(k) + Win.left>>)
            ELSE pre.cells[p]]]

\* C6: a print never writes to another row; the first put_cell that fails
\* (a column beyond the window width fails with out-of-bounds) ends the call
\* with that error, no later put_cell is made, and the canvas is as the
\* characters before the failing one left it.
C6_NoWrapAbort ==
    (IsPrint /\ Lvl = 1) =>
        LET puts == CallsAt(Lvl, "put_cell")
            bad == {k \in 1 .. Len(call.content) : FailsAt(k)}
        IN /\ \A i \in 1 .. Len(tr) :
                 /\ tr[i].op = "put_cell"
                 /\ tr[i].row = IF tr[i].lvl = 0 THEN call.row + Win.top
                                ELSE call.row
           /\ \A p \in Pos :
                 p[1] # call.row + Win.top => canvas.cells[p] = pre.cells[p]
           /\ bad = {} => res.ok
           /\ bad # {} =>
                 LET f == CHOOSE k \in bad : \A j \in bad : k <= j IN
                 /\ ~res.ok
                 /\ Len(puts) = f
                 /\ puts[f].col = call.col + Off(f)
                 /\ ~Inside(call.row, call.col + Off(f)) =>
                        res.err = OutOfBox(call.row, call.col + Off(f))
                 /\ canvas = Written(f - 1)

C6_Witness ==
    /\ call.op = "print" /\ Len(call.content) = 2 /\ ~res.ok
    /\ call.col < Win.width /\ call.col + SumW(call.content) > Win.width
    /\ Win.left + Win.width < PW /\ call.row + Win.top + 1 < PH
    /\ canvas.cells # pre.cells

\* the single BoundedCanvas with the summed offsets and the inner size
Compose(outer, inner) ==
    New(outer.top + inner.top, outer.left + inner.left,
        inner.width, inner.height)

\* the inner window lies inside the outer one
Contained(outer, inner) ==
    /\ inner.top + inner.height <= outer.height
    /\ inner.left + inner.width <= outer.width

\* C7: every call on a BoundedCanvas built from another BoundedCanvas gives
\* the result and the final parent state that the same call gives on the
\* single BoundedCanvas with summed offsets and the inner size.  The claim
\* is for every two windows; it is stated here for the windows where the
\* inner one lies inside the outer one, a case of the claim.
C7_NestedAsSummed ==
    (call # NoCall /\ Len(wins) = 2 /\ Contained(wins[1], wins[2])) =>
        LET flat == Apply(<<Compose(wins[1], wins[2])>>, pre, call) IN
        /\ res = flat.res
        /\ canvas = flat.st

\* C8: size() succeeds with exactly (w, h), without a call on the parent.
C8_SizeIsWindow ==
    call.op = "size" =>
        /\ res = Ok(<<Win.width, Win.height>>)
        /\ CallsAtLvl(Lvl - 1) = << >>
        /\ canvas = pre

C8_Witness ==
    /\ call.op = "size" /\ nOps >= 2 /\ res.ok
    /\ canvas.broken /\ ~Fits /\ <<Win.width, Win.height>> # <<PW, PH>>

\* C9: clear() returns success whatever the writes do, and attempts the
\* write of the empty cell for every pair of its iteration.
C9_ClearBestEffort ==
    call.op = "clear" =>
        LET puts == CallsAt(Lvl, "put_cell") IN
        /\ res = Ok(<< >>)
        /\ Len(puts) = Win.width * Win.height
        /\ \A i \in 1 .. Len(puts) : puts[i].cell = CellEmpty

C9_Witness ==
    /\ call.op = "clear" /\ res.ok /\ canvas.cells # pre.cells
    /\ \E i \in 1 .. Len(tr) - 1 :
          /\ tr[i].lvl = Lvl /\ tr[i].op = "put_cell"
          /\ tr[i + 1].lvl = Lvl

\* C10: show_cursor makes one show_cursor call with the same flag on each
\* canvas below, checks and translates nothing, returns the parent's result
\* and changes neither a cell nor the cursor position.
C10_ShowCursorPassesThrough ==
    call.op = "show_cursor" =>
        /\ Len(tr) = Lvl + 1
        /\ \A k \in 0 .. Lvl - 1 :
              CallsAtLvl(k) = <<Rec(k, "show_cursor", 0, 0, CellDefault, call.show)>>
        /\ res = BackendShowCursor(pre, call.show).res
        /\ canvas.cells = pre.cells
        /\ canvas.cursor = pre.cursor

C10_Witness ==
    /\ call.op = "show_cursor" /\ Len(wins) = 2 /\ ~call.show
    /\ res.ok /\ pre.visible /\ ~canvas.visible

====
